---- MODULE Spec2Model ----
(***************************************************************************)
(* Verification model of the black box pipeline of                          *)
(* src/blackbox-demo/main.py: the chunk recorder (video_recorder), the      *)
(* evidence window selector (get_valid_video_files), the packager           *)
(* (upload_video_files), the trigger handler (on_wakeup) and main.          *)
(*                                                                          *)
(* Time is counted in ticks, TicksPerSec ticks to the second.  A chunk file *)
(* is named by the second in which it was opened (FMT has no sub-second     *)
(* field), a wake-up time keeps its sub-second part.  A file stem is an     *)
(* integer: a stem >= 0 is the second a canonical YYYYMMDDhhmmss name       *)
(* stands for, Short(s) is a name of second s with a field that is not      *)
(* zero-padded (strptime takes it: 2025080313405 reads as 13:40:05), and    *)
(* any other stem < 0 stands for a name strptime rejects.                   *)
(*                                                                          *)
(* strftime and strptime of FMT are also modelled on digit strings, and the *)
(* /report request of src/api (routers/report.py, ReportService,            *)
(* FileService) as a state machine of its own.                              *)
(***************************************************************************)
EXTENDS Integers, Sequences, FiniteSets, TLC

\* ---------------------------------------------------------------- bounds
TicksPerSec == 2
MaxTime == 6
MaxFrames == 5
FramesPerChunk == 2
WaitTicks == 2
MaxTriggers == 2
MaxPrunes == 1
SelMaxSec == 8
SelMaxFiles == 7
AliasMaxSec == 3
MaxEntries == 2
MaxTools == 2

\* ----------------------------------------------------- program constants
GapSeconds == 5
MaxPre == 4
HttpOk == 200

NoFile == -100
NoDir == 0
NoResult == -1
None == "None"

VARIABLES
    now,          \* wall clock, in ticks
    stop_event,   \* threading.Event shared by main, recorder and listener
    mpc,          \* main: "running" | "exited"
    rpc,          \* video_recorder: "init" | "loop" | "finally" | "done"
    cap,          \* capture device: "unopened" | "failed" | "open" | "released"
    rexit,        \* why video_recorder left its loop
    frame_count,  \* video_recorder's frame_count
    out,          \* video_recorder's out: the stem of its VideoWriter, or NoFile
    opened,       \* stems with a VideoWriter that was not released
    files,        \* the chunk directory: stem -> frames written to the file
    apc,          \* audio_listener: "init" | "nomic" | "listening" | "stopped"
    spc,          \* on_wakeup: "idle" | "wait" | "pack" | "reading"
    fired_at,     \* on_wakeup's now (ticks)
    sel,          \* the list get_valid_video_files returned
    idx,          \* upload_video_files: index of the next path of file_paths
    zipped,       \* upload_video_files: entries written to the archive
    ret,          \* last return value of upload_video_files
    wret,         \* last return value of on_wakeup
    observed,     \* history: <<return value of on_wakeup, what happened>>
    triggers,     \* number of recognized trigger phrases
    selections,   \* history: number of returns of get_valid_video_files
    uploads,      \* history: number of calls of upload_video_files
    posts,        \* history: number of calls of requests.post
    posted,       \* the archive last handed to requests.post
    mp4_files,    \* extract_zip_contents: mp4_files of the last archive
    pruned,       \* number of files removed by a process outside the program
    \* the report server (src/api), one /report request
    qpc,          \* report: where the request handler is
    upload,       \* the uploaded file: its name and its content
    mcp,          \* the MCP client: "off" | "fails" | "empty" | "tools"
    made,         \* history: number of calls of tempfile.mkdtemp
    temp_dirs,    \* the temporary directories that exist on the server
    temp_dir,     \* report's temp_dir, NoDir for None
    zip_info,     \* what extract_zip_contents returned
    langchain_tools, \* process_report: number of tools loaded
    mcp_asked,    \* history: number of calls of mcp_service.get_tools
    stages,       \* history: <<stage, outcome>> of each LLM stage run
    status_code,  \* the status of the response, 0 while there is none
    tools_used,   \* tools_used of the result, NoResult while there is none
    \* file naming: two times, the names formatted from them, a name parsed
    t1, t2,       \* <<year, month, day, hour, minute, second>>
    padded,       \* whether the platform's strftime pads %Y to four digits
    name1, name2, \* the stems strftime(FMT) gave, <<>> before
    parsed        \* what strptime(name1, FMT) gave, <<>> before

boxVars == <<now, stop_event, mpc, rpc, cap, rexit, frame_count, out, opened,
             files, apc, spc, fired_at, sel, idx, zipped, ret, wret,
             observed, triggers, selections, uploads, posts, posted, mp4_files,
             pruned>>
srvVars == <<qpc, upload, mcp, made, temp_dirs, temp_dir, zip_info, langchain_tools,
             mcp_asked, stages, status_code, tools_used>>
nameVars == <<t1, t2, padded, name1, name2, parsed>>
extVars == <<srvVars, nameVars>>

vars == <<boxVars, srvVars, nameVars>>

recVars == <<rpc, cap, rexit, frame_count, out, opened>>
histVars == <<selections, uploads, posts, posted, mp4_files>>
selVars == <<spc, fired_at, sel, idx, zipped, ret, wret, observed, histVars>>

\* ------------------------------------------------------------ Clock/Naming
\* datetime.now().strftime(FMT): the second of a tick, sub-second part dropped
Format(t) == t \div TicksPerSec

\* the stem of a name of second s that is not zero-padded
Short(s) == -(s + 10)

Parsable_Lenient(stem) == TRUE

\* datetime.strptime(stem, FMT) succeeds
Parsable(stem) == stem >= 0 \/ stem <= Short(0)

\* datetime.strptime(stem, FMT): the tick the second starts at
Parse(stem) == (IF stem >= 0 THEN stem ELSE -(stem + 10)) * TicksPerSec

Take_Last(s, n) ==
    IF Len(s) <= n THEN s ELSE SubSeq(s, Len(s) - n + 1, Len(s))

\* ---------------------------------------------------------------- helpers
Take(s, n) == SubSeq(s, 1, IF Len(s) < n THEN Len(s) ELSE n)

Range(s) == {s[i] : i \in 1..Len(s)}

\* list.sort(key=lambda x: x[1], reverse=rev) is stable: x, the last element
\* of the unsorted list, goes behind every element that does not sort after it
InsertLast(x, s, rev) ==
    LET k == Cardinality({i \in 1..Len(s) :
                 IF rev THEN Parse(s[i]) >= Parse(x)
                        ELSE Parse(s[i]) <= Parse(x)})
    IN  SubSeq(s, 1, k) \o <<x>> \o SubSeq(s, k + 1, Len(s))

RECURSIVE SortByTime(_, _)
SortByTime(s, rev) ==
    IF s = <<>> THEN <<>>
    ELSE InsertLast(s[Len(s)], SortByTime(SubSeq(s, 1, Len(s) - 1), rev), rev)

\* ------------------------------------------------- get_valid_video_files
\* the loop over all_files: unparsable stems are skipped, the others split
PreWakeup(listing, wakeup) ==
    LET IsPre(stem) == Parsable(stem) /\ Parse(stem) < wakeup
    IN  SelectSeq(listing, IsPre)

PostWakeup(listing, wakeup) ==
    LET IsPost(stem) == Parsable(stem) /\ ~(Parse(stem) < wakeup)
    IN  SelectSeq(listing, IsPost)

ValidPre_NoReverse(listing, wakeup) ==
    Take(SortByTime(PreWakeup(listing, wakeup), FALSE), MaxPre)

ValidPre(listing, wakeup) == Take(SortByTime(PreWakeup(listing, wakeup), TRUE), MaxPre)

ValidPost_Latest(listing, wakeup) ==
    Take(SortByTime(PostWakeup(listing, wakeup), TRUE), 1)

ValidPost(listing, wakeup) == Take(SortByTime(PostWakeup(listing, wakeup), FALSE), 1)

GapReached_Strict(time_diff) == time_diff > GapSeconds * TicksPerSec

GapReached(time_diff) == time_diff >= GapSeconds * TicksPerSec

GetValidVideoFiles_SameSlice(listing, wakeup) ==
    LET valid_pre  == ValidPre(listing, wakeup)
        valid_post == ValidPost(listing, wakeup)
    IN  IF Len(valid_pre) >= 3 /\ valid_post # <<>>
        THEN valid_post \o Take(valid_pre, 3)
        ELSE valid_post \o valid_pre

GetValidVideoFiles_AllOrNothing(listing, wakeup) ==
    LET valid_pre  == ValidPre(listing, wakeup)
        valid_post == ValidPost(listing, wakeup)
    IN  IF Len(valid_pre) >= 3 /\ valid_post # <<>>
        THEN IF GapReached(wakeup - Parse(valid_pre[1]))
             THEN valid_post \o Take(valid_pre, 3)
             ELSE valid_post \o Take(valid_pre, 2)
        ELSE <<>>

\* the list get_valid_video_files returns for a directory listing
GetValidVideoFiles(listing, wakeup) ==
    LET valid_pre  == ValidPre(listing, wakeup)
        valid_post == ValidPost(listing, wakeup)
    IN  IF Len(valid_pre) >= 3 /\ valid_post # <<>>
        THEN IF GapReached(wakeup - Parse(valid_pre[1]))
             THEN valid_post \o Take(valid_pre, 3)
             ELSE valid_post \o Take(valid_pre, 2)
        ELSE valid_post \o valid_pre

\* Path.glob gives the entries in an order of the file system's choosing:
\* the listing is drawn from the ascending and the descending order
RECURSIVE Ascending(_)
Ascending(S) ==
    IF S = {} THEN <<>>
    ELSE LET m == CHOOSE x \in S : \A y \in S : x <= y
         IN  <<m>> \o Ascending(S \ {m})

Reverse(s) == [i \in 1..Len(s) |-> s[Len(s) + 1 - i]]

Listings(S) == {Ascending(S), Reverse(Ascending(S))}

\* ------------------------------------------------------- strftime, strptime
\* A time is <<year, month, day, hour, minute, second>>, a stem the sequence
\* of its decimal digits.
RECURSIVE Pow10(_)
Pow10(k) == IF k = 0 THEN 1 ELSE 10 * Pow10(k - 1)

\* n in decimal, zero-padded to width digits
Digits(n, width) == [i \in 1..width |-> (n \div Pow10(width - i)) % 10]

DecimalWidth(n) == IF n < 10 THEN 1 ELSE IF n < 100 THEN 2 ELSE IF n < 1000 THEN 3 ELSE 4

\* %Y of the C library: padded to four digits on some platforms, as many
\* digits as the year has on others (glibc)
YearField(y, pad) == Digits(y, IF pad THEN 4 ELSE DecimalWidth(y))

Strftime_Bare(t, pad) ==
    YearField(t[1], pad) \o Digits(t[2], DecimalWidth(t[2]))
        \o Digits(t[3], DecimalWidth(t[3])) \o Digits(t[4], DecimalWidth(t[4]))
        \o Digits(t[5], DecimalWidth(t[5])) \o Digits(t[6], DecimalWidth(t[6]))

Strftime_DayFirst(t, pad) ==
    YearField(t[1], pad) \o Digits(t[3], 2) \o Digits(t[2], 2)
        \o Digits(t[4], 2) \o Digits(t[5], 2) \o Digits(t[6], 2)

\* datetime.now().strftime(FMT), FMT = "%Y%m%d%H%M%S"
Strftime(t, pad) ==
    YearField(t[1], pad) \o Digits(t[2], 2) \o Digits(t[3], 2)
        \o Digits(t[4], 2) \o Digits(t[5], 2) \o Digits(t[6], 2)

\* the number written by the w digits of str from position pos on
RECURSIVE Value(_, _, _)
Value(str, pos, w) ==
    IF w = 0 THEN 0 ELSE 10 * Value(str, pos, w - 1) + str[pos + w - 1]

\* the patterns strptime compiles for %m %d %H %M %S: what w digits of value
\* v a field (2 = month .. 6 = second) accepts
FieldOk(f, w, v) ==
    CASE f = 2 -> IF w = 2 THEN v >= 1 /\ v <= 12 ELSE v >= 1
      [] f = 3 -> IF w = 2 THEN v >= 1 /\ v <= 31 ELSE v >= 1
      [] f = 4 -> v <= 23
      [] f = 5 -> v <= 59
      [] f = 6 -> v <= 61

\* where field f starts when the fields before it take the widths ws
RECURSIVE FieldPos(_, _)
FieldPos(ws, f) == IF f = 2 THEN 5 ELSE FieldPos(ws, f - 1) + ws[f - 1]

\* the widths (of fields 2..6) with which the pattern matches a prefix of str
Matches(str) ==
    {ws \in [2..6 -> {1, 2}] :
        /\ FieldPos(ws, 6) + ws[6] - 1 <= Len(str)
        /\ \A f \in 2..6 : FieldOk(f, ws[f], Value(str, FieldPos(ws, f), ws[f]))}

\* the regular expression tries two digits before one, the earlier field
\* first: ws is taken before vs
Preferred(ws, vs) ==
    \E f \in 2..6 : ws[f] > vs[f] /\ \A g \in 2..(f - 1) : ws[g] = vs[g]

DaysIn(y, m) ==
    IF m = 2
    THEN IF (y % 4 = 0 /\ y % 100 # 0) \/ y % 400 = 0 THEN 29 ELSE 28
    ELSE IF m \in {4, 6, 9, 11} THEN 30 ELSE 31

\* strptime raised ValueError
ValueError == <<-1>>

\* datetime.strptime(stem, FMT): the time, or ValueError when the pattern
\* does not match, data remains behind the match or the date does not exist
Strptime(str) ==
    IF Len(str) < 4 \/ Matches(str) = {} THEN ValueError
    ELSE LET ws == CHOOSE w \in Matches(str) :
                       \A v \in Matches(str) \ {w} : Preferred(w, v)
             t  == <<Value(str, 1, 4)>> \o
                   [i \in 1..5 |-> Value(str, FieldPos(ws, i + 1), ws[i + 1])]
         IN  IF \/ FieldPos(ws, 6) + ws[6] - 1 # Len(str)
                \/ t[1] < 1 \/ t[3] > DaysIn(t[1], t[2]) \/ t[6] > 59
             THEN ValueError
             ELSE t

\* chronological order of two times
RECURSIVE TimeLess(_, _)
TimeLess(a, b) ==
    /\ a # <<>> /\ b # <<>>
    /\ \/ a[1] < b[1]
       \/ a[1] = b[1] /\ TimeLess(Tail(a), Tail(b))

\* str < str of Python: order of the first digit that differs, a proper
\* prefix before the longer string
RECURSIVE StrLess(_, _)
StrLess(a, b) ==
    /\ b # <<>>
    /\ \/ a = <<>>
       \/ a[1] < b[1]
       \/ a[1] = b[1] /\ StrLess(Tail(a), Tail(b))

\* the recorder names two chunks
NameFormat ==
    /\ t1 # <<>> /\ name1 = <<>>
    /\ name1' = Strftime(t1, padded)
    /\ name2' = Strftime(t2, padded)
    /\ UNCHANGED <<t1, t2, padded, parsed>>
    /\ UNCHANGED <<boxVars, srvVars>>

\* the selector parses the stem of the first
NameParse ==
    /\ name1 # <<>> /\ parsed = <<>>
    /\ parsed' = Strptime(name1)
    /\ UNCHANGED <<t1, t2, padded, name1, name2>>
    /\ UNCHANGED <<boxVars, srvVars>>

\* ------------------------------------------------------------ video_recorder
RecStart_NoStop ==
    /\ mpc = "running" /\ rpc = "init"
    /\ \E opens \in BOOLEAN :
          IF opens
          THEN /\ cap' = "open" /\ rpc' = "loop"
               /\ UNCHANGED <<stop_event, rexit>>
          ELSE /\ cap' = "failed" /\ rpc' = "done" /\ rexit' = "nocamera"
               /\ UNCHANGED stop_event
    /\ UNCHANGED <<now, mpc, frame_count, out, opened, files, apc, triggers, pruned>>
    /\ UNCHANGED selVars
    /\ UNCHANGED extVars

\* cap = cv2.VideoCapture(0); a device that does not open sets the stop signal
RecStart ==
    /\ mpc = "running" /\ rpc = "init"
    /\ \E opens \in BOOLEAN :
          IF opens
          THEN /\ cap' = "open" /\ rpc' = "loop"
               /\ UNCHANGED <<stop_event, rexit>>
          ELSE /\ cap' = "failed" /\ rpc' = "done" /\ rexit' = "nocamera"
               /\ stop_event' = TRUE
    /\ UNCHANGED <<now, mpc, frame_count, out, opened, files, apc, triggers, pruned>>
    /\ UNCHANGED selVars
    /\ UNCHANGED extVars

ReleasedAtRollover_Leak(o, op) == op

\* the writers left open once the recorder has rolled over
ReleasedAtRollover(o, op) == op \ {o}

\* cv2.VideoWriter(filepath, ...): creates the file, or truncates the one there
CreateChunk(fs, stem) == (stem :> 0) @@ fs

WriteFrame_Drops(fs, stem) ==
    IF fs[stem] = 0 THEN fs ELSE [fs EXCEPT ![stem] = @ + 1]

\* out.write(frame)
WriteFrame(fs, stem) == [fs EXCEPT ![stem] = @ + 1]

\* one pass of the loop with a frame read: roll over at a chunk boundary,
\* write the frame, count it, poll the keyboard
RecFrame ==
    /\ mpc = "running" /\ rpc = "loop" /\ ~stop_event
    /\ frame_count < MaxFrames
    /\ LET boundary == frame_count % FramesPerChunk = 0
           stem     == IF boundary THEN Format(now) ELSE out
           fs       == IF boundary THEN CreateChunk(files, stem) ELSE files
       IN  /\ out' = stem
           /\ opened' = IF boundary
                        THEN ReleasedAtRollover(out, opened) \cup {stem}
                        ELSE opened
           /\ files' = WriteFrame(fs, stem)
    /\ frame_count' = frame_count + 1
    /\ \E quit \in BOOLEAN :
          IF quit
          THEN stop_event' = TRUE /\ rpc' = "finally" /\ rexit' = "quit"
          ELSE UNCHANGED <<stop_event, rpc, rexit>>
    /\ UNCHANGED <<now, mpc, cap, apc, triggers, pruned>>
    /\ UNCHANGED selVars
    /\ UNCHANGED extVars

FailedRead_Writes(fs, o) == IF o \in DOMAIN fs THEN WriteFrame(fs, o) ELSE fs

\* if not ret: break, ahead of the rollover and of out.write: the directory
\* is as it was
FailedRead(fs, o) == fs

\* cap.read() gives ret = False: break
RecReadFail ==
    /\ mpc = "running" /\ rpc = "loop" /\ ~stop_event
    /\ files' = FailedRead(files, out)
    /\ rpc' = "finally" /\ rexit' = "readfail"
    /\ UNCHANGED <<now, stop_event, mpc, cap, frame_count, out, opened,
                   apc, triggers, pruned>>
    /\ UNCHANGED selVars
    /\ UNCHANGED extVars

\* while not stop_event.is_set(): the loop ends on the stop signal
RecStopSeen ==
    /\ mpc = "running" /\ rpc = "loop" /\ stop_event
    /\ rpc' = "finally" /\ rexit' = "stop"
    /\ UNCHANGED <<now, stop_event, mpc, cap, frame_count, out, opened, files,
                   apc, triggers, pruned>>
    /\ UNCHANGED selVars
    /\ UNCHANGED extVars

\* an exception raised in the loop (KeyboardInterrupt, a cv2.error)
RecException ==
    /\ mpc = "running" /\ rpc = "loop"
    /\ rpc' = "finally" /\ rexit' = "exception"
    /\ UNCHANGED <<now, stop_event, mpc, cap, frame_count, out, opened, files,
                   apc, triggers, pruned>>
    /\ UNCHANGED selVars
    /\ UNCHANGED extVars

ReleasedAtExit_Leak(o, op) == op

\* the writers left open by the finally block
ReleasedAtExit(o, op) == op \ {o}

\* finally: if out: out.release(); cap.release()
RecFinally ==
    /\ mpc = "running" /\ rpc = "finally"
    /\ opened' = ReleasedAtExit(out, opened)
    /\ cap' = "released"
    /\ rpc' = "done"
    /\ UNCHANGED <<now, stop_event, mpc, rexit, frame_count, out, files, apc,
                   triggers, pruned>>
    /\ UNCHANGED selVars
    /\ UNCHANGED extVars

\* ---------------------------------------------------------------------- main
\* finally: stop_event.set(); audio_thread.join(timeout=2); the daemon
\* threads end with the process
MainExit ==
    /\ mpc = "running" /\ rpc = "done"
    /\ stop_event' = TRUE /\ mpc' = "exited"
    /\ UNCHANGED <<now, apc, files, triggers, pruned>>
    /\ UNCHANGED recVars
    /\ UNCHANGED selVars
    /\ UNCHANGED extVars

\* ------------------------------------------------------------ audio_listener
\* sr.Microphone() raises OSError: the stop signal is set; else the background
\* listener is started
AudioStart ==
    /\ mpc = "running" /\ apc = "init"
    /\ \E mic \in BOOLEAN :
          IF mic THEN apc' = "listening" /\ UNCHANGED stop_event
                 ELSE apc' = "nomic" /\ stop_event' = TRUE
    /\ UNCHANGED <<now, mpc, files, triggers, pruned>>
    /\ UNCHANGED recVars
    /\ UNCHANGED selVars
    /\ UNCHANGED extVars

\* while not stop_event.is_set(): time.sleep(0.1)
AudioStop ==
    /\ mpc = "running" /\ apc = "listening" /\ stop_event
    /\ apc' = "stopped"
    /\ UNCHANGED <<now, stop_event, mpc, files, triggers, pruned>>
    /\ UNCHANGED recVars
    /\ UNCHANGED selVars
    /\ UNCHANGED extVars

\* ------------------------------------------------------------------ on_wakeup
\* what the caller of on_wakeup gets back
WakeupResult(outcome) == None

\* callback: a trigger phrase is recognized; on_wakeup records now
Trigger ==
    /\ mpc = "running" /\ apc \in {"listening", "stopped"}
    /\ spc = "idle" /\ triggers < MaxTriggers
    /\ triggers' = triggers + 1
    /\ fired_at' = now
    /\ spc' = "wait"
    /\ sel' = <<>> /\ idx' = 1 /\ zipped' = <<>> /\ ret' = None /\ wret' = None
    /\ UNCHANGED <<now, stop_event, mpc, files, apc, observed, pruned>>
    /\ UNCHANGED histVars
    /\ UNCHANGED recVars
    /\ UNCHANGED extVars

SleepDone_UntilPost(t, wakeup) ==
    /\ t >= wakeup + WaitTicks
    /\ \E s \in DOMAIN files : Parsable(s) /\ Parse(s) > wakeup

\* time.sleep(wait_seconds) has returned
SleepDone(t, wakeup) == t >= wakeup + WaitTicks

NoEvidence_Never(result) == FALSE

\* if not valid_files: return
NoEvidence(result) == result = <<>>

SelList_Cleans ==
    /\ mpc = "running" /\ spc = "wait"
    /\ SleepDone(now, fired_at)
    /\ \E listing \in Listings(DOMAIN files) :
          LET result == GetValidVideoFiles(listing, fired_at)
              kept   == Range(result) \cup opened
          IN  /\ sel' = result
              /\ files' = [s \in DOMAIN files \cap kept |-> files[s]]
              /\ IF NoEvidence(result)
                 THEN /\ spc' = "idle"
                      /\ wret' = WakeupResult("no_evidence")
                      /\ observed' = observed \cup {<<wret', "no_evidence">>}
                      /\ UNCHANGED uploads
                 ELSE /\ spc' = "pack"
                      /\ uploads' = uploads + 1
                      /\ UNCHANGED <<wret, observed>>
    /\ selections' = selections + 1
    /\ UNCHANGED <<now, stop_event, mpc, apc, fired_at, idx, zipped, ret,
                   triggers, posts, posted, mp4_files, pruned>>
    /\ UNCHANGED recVars
    /\ UNCHANGED extVars

\* get_valid_video_files after time.sleep(wait_seconds): list the directory,
\* select; an empty list ends on_wakeup
SelList ==
    /\ mpc = "running" /\ spc = "wait"
    /\ SleepDone(now, fired_at)
    /\ \E listing \in Listings(DOMAIN files) :
          LET result == GetValidVideoFiles(listing, fired_at)
          IN  /\ sel' = result
              /\ IF NoEvidence(result)
                 THEN /\ spc' = "idle"
                      /\ wret' = WakeupResult("no_evidence")
                      /\ observed' = observed \cup {<<wret', "no_evidence">>}
                      /\ UNCHANGED uploads
                 ELSE /\ spc' = "pack"
                      /\ uploads' = uploads + 1
                      /\ UNCHANGED <<wret, observed>>
    /\ selections' = selections + 1
    /\ UNCHANGED <<now, stop_event, mpc, files, apc, fired_at, idx, zipped, ret,
                   triggers, posts, posted, mp4_files, pruned>>
    /\ UNCHANGED recVars
    /\ UNCHANGED extVars

\* --------------------------------------------------------- upload_video_files
\* for file_path in file_paths: a path that does not exist is passed over
PackNext ==
    /\ mpc = "running" /\ spc = "pack" /\ idx <= Len(sel)
    /\ IF sel[idx] \in DOMAIN files
       THEN spc' = "reading" /\ UNCHANGED idx
       ELSE idx' = idx + 1 /\ UNCHANGED spc
    /\ UNCHANGED <<now, stop_event, mpc, files, apc, fired_at, sel, zipped, ret,
                   wret, observed, triggers, pruned>>
    /\ UNCHANGED histVars
    /\ UNCHANGED recVars
    /\ UNCHANGED extVars

\* zip_file.write(file_path, file_name) has read the file
PackRead ==
    /\ mpc = "running" /\ spc = "reading"
    /\ zipped' = Append(zipped, <<sel[idx], files[sel[idx]]>>)
    /\ idx' = idx + 1
    /\ spc' = "pack"
    /\ UNCHANGED <<now, stop_event, mpc, files, apc, fired_at, sel, ret, wret,
                   observed, triggers, pruned>>
    /\ UNCHANGED histVars
    /\ UNCHANGED recVars
    /\ UNCHANGED extVars

\* the value upload_video_files returns for the answer of requests.post
UploadResult(answer) == IF answer = HttpOk THEN "True" ELSE "False"

PackPost_Retries ==
    /\ mpc = "running" /\ spc = "pack" /\ idx > Len(sel)
    /\ \E answer \in {HttpOk, 500, -1} :
          /\ ret' = UploadResult(answer)
          /\ wret' = WakeupResult(ret')
          /\ observed' = observed \cup
                {<<wret', IF ret' = "True" THEN "uploaded" ELSE "failed">>}
          /\ spc' = IF answer = HttpOk THEN "idle" ELSE "pack"
    /\ posts' = posts + 1
    /\ posted' = zipped
    /\ UNCHANGED <<now, stop_event, mpc, files, apc, fired_at, sel, idx, zipped,
                   triggers, selections, uploads, mp4_files, pruned>>
    /\ UNCHANGED recVars
    /\ UNCHANGED extVars

\* requests.post and the return; on_wakeup drops the value and returns
PackPost ==
    /\ mpc = "running" /\ spc = "pack" /\ idx > Len(sel)
    /\ \E answer \in {HttpOk, 500, -1} :
          /\ ret' = UploadResult(answer)
          /\ wret' = WakeupResult(ret')
          /\ observed' = observed \cup
                {<<wret', IF ret' = "True" THEN "uploaded" ELSE "failed">>}
    /\ posts' = posts + 1
    /\ posted' = zipped
    /\ spc' = "idle"
    /\ UNCHANGED <<now, stop_event, mpc, files, apc, fired_at, sel, idx, zipped,
                   triggers, selections, uploads, mp4_files, pruned>>
    /\ UNCHANGED recVars
    /\ UNCHANGED extVars

PackError_PostsPartial ==
    /\ mpc = "running" /\ spc \in {"pack", "reading"} /\ idx <= Len(sel)
    /\ ret' = "False"
    /\ wret' = WakeupResult(ret')
    /\ observed' = observed \cup {<<wret', "failed">>}
    /\ spc' = "idle"
    /\ posts' = posts + 1
    /\ posted' = zipped
    /\ UNCHANGED <<now, stop_event, mpc, files, apc, fired_at, sel, idx, zipped,
                   triggers, selections, uploads, mp4_files, pruned>>
    /\ UNCHANGED recVars
    /\ UNCHANGED extVars

\* except Exception: an error while the archive is built returns False
PackError ==
    /\ mpc = "running" /\ spc \in {"pack", "reading"} /\ idx <= Len(sel)
    /\ ret' = "False"
    /\ wret' = WakeupResult(ret')
    /\ observed' = observed \cup {<<wret', "failed">>}
    /\ spc' = "idle"
    /\ UNCHANGED <<now, stop_event, mpc, files, apc, fired_at, sel, idx, zipped,
                   triggers, pruned>>
    /\ UNCHANGED histVars
    /\ UNCHANGED recVars
    /\ UNCHANGED extVars

\* ------------------------------------------- FileService.extract_zip_contents
\* zip_ref.extractall(temp_dir): the content each name has in the temporary
\* directory, a later entry of the same name written over an earlier one
ExtractedContent(archive, name) ==
    LET last == CHOOSE j \in 1..Len(archive) :
                    /\ archive[j][1] = name
                    /\ \A k \in (j + 1)..Len(archive) : archive[k][1] # name
    IN  archive[last][2]

ExtractZipContents_Listed(archive) ==
    LET names == Ascending({archive[i][1] : i \in 1..Len(archive)})
    IN  [i \in 1..Len(names) |->
            <<names[i], ExtractedContent(archive, names[i])>>]

\* mp4_files: one entry for each member of zip_ref.filelist, in its order,
\* with the name and the content found in the temporary directory
ExtractZipContents(archive) ==
    [i \in 1..Len(archive) |->
        <<archive[i][1], ExtractedContent(archive, archive[i][1])>>]

\* the archive last handed to requests.post is unpacked on the server
ExtractZip ==
    /\ posts > 0
    /\ mp4_files # ExtractZipContents(posted)
    /\ mp4_files' = ExtractZipContents(posted)
    /\ UNCHANGED <<now, stop_event, mpc, files, apc, spc, fired_at, sel, idx,
                   zipped, ret, wret, observed, triggers, selections, uploads,
                   posts, posted, pruned>>
    /\ UNCHANGED recVars
    /\ UNCHANGED extVars

\* ------------------------------------------------------ the report server
\* An entry of an uploaded archive is named by what it is: "other" for a
\* name that does not end in .mp4, "corrupt" for an .mp4 entry whose data
\* fails its CRC, else an .mp4 entry named by what ffprobe does on it.
ProbeKinds ==
    {"ok", "missing", "timeout", "nonzero", "badjson", "nofield", "nonnumeric"}

EntryKinds == {"other", "corrupt"} \cup ProbeKinds

Uploads ==
    {[filename |-> f, valid |-> TRUE, entries |-> e] :
        f \in {"zip", "other", "none"},
        e \in UNION {[1..n -> EntryKinds] : n \in 0..MaxEntries}}
    \cup {[filename |-> f, valid |-> FALSE, entries |-> <<>>] :
             f \in {"zip", "other", "none"}}

\* filename.lower().endswith(".mp4")
IsMp4(kind) == kind # "other"

\* the .mp4 names of zip_ref.namelist()
Mp4Names(entries) == SelectSeq(entries, IsMp4)

\* FileService._get_video_duration: "seconds" for a float, "None", or
\* "raises" for an exception that leaves the function
ProbeDuration(kind) ==
    CASE kind = "ok" -> "seconds"
      [] kind \in {"missing", "timeout", "nonzero", "badjson", "nofield"} -> "None"
      [] kind = "nonnumeric" -> "raises"

\* the request arrives: an uploaded file, and the MCP client as it is
ReportReceive ==
    /\ qpc = "idle"
    /\ upload' \in Uploads
    /\ mcp' \in {"off", "fails", "empty", "tools"}
    /\ qpc' = "received"
    /\ UNCHANGED <<made, temp_dirs, temp_dir, zip_info, langchain_tools,
                   mcp_asked, stages, status_code, tools_used>>
    /\ UNCHANGED <<boxVars, nameVars>>

\* what the checks of report let through to ReportService
Accepted(u) ==
    /\ u.filename = "zip"
    /\ u.valid
    /\ Mp4Names(u.entries) # <<>>

ReportValidate_AnyArchive ==
    /\ qpc = "received"
    /\ IF upload.filename = "zip" /\ upload.valid
       THEN qpc' = "validated" /\ UNCHANGED status_code
       ELSE qpc' = "responded" /\ status_code' = 400
    /\ UNCHANGED <<upload, mcp, made, temp_dirs, temp_dir, zip_info,
                   langchain_tools, mcp_asked, stages, tools_used>>
    /\ UNCHANGED <<boxVars, nameVars>>

\* report: the file name, the archive and its .mp4 entries are checked; a
\* failed check raises HTTPException(400), temp_dir is still None
ReportValidate ==
    /\ qpc = "received"
    /\ IF Accepted(upload)
       THEN qpc' = "validated" /\ UNCHANGED status_code
       ELSE qpc' = "responded" /\ status_code' = 400
    /\ UNCHANGED <<upload, mcp, made, temp_dirs, temp_dir, zip_info,
                   langchain_tools, mcp_asked, stages, tools_used>>
    /\ UNCHANGED <<boxVars, nameVars>>

\* extract_zip_contents raises: extractall on a corrupt entry, or the
\* duration probe of an .mp4 entry
ExtractRaises(entries) ==
    \E i \in 1..Len(entries) :
        \/ entries[i] = "corrupt"
        \/ IsMp4(entries[i]) /\ ProbeDuration(entries[i]) = "raises"

\* process_report calls extract_zip_contents: mkdtemp, extractall, one
\* entry of mp4_files for each .mp4 member with its duration; an exception
\* removes the directory and leaves process_report as HTTPException(500),
\* which report passes on with temp_dir still None
ReportExtract ==
    /\ qpc = "validated"
    /\ made' = made + 1
    /\ IF ExtractRaises(upload.entries)
       THEN /\ temp_dirs' = temp_dirs
            /\ qpc' = "responded" /\ status_code' = 500
            /\ UNCHANGED zip_info
       ELSE /\ temp_dirs' = temp_dirs \cup {made'}
            /\ zip_info' =
                  [mp4_files |->
                      [i \in 1..Len(Mp4Names(upload.entries)) |->
                          <<Mp4Names(upload.entries)[i],
                            ProbeDuration(Mp4Names(upload.entries)[i])>>],
                   temp_directory |-> made']
            /\ qpc' = "extracted" /\ UNCHANGED status_code
    /\ UNCHANGED <<upload, mcp, temp_dir, langchain_tools, mcp_asked, stages,
                   tools_used>>
    /\ UNCHANGED <<boxVars, nameVars>>

\* process_report: the tools of the MCP client, if it is connected
ReportLoadTools ==
    /\ qpc = "extracted"
    /\ mcp_asked' = IF mcp = "off" THEN mcp_asked ELSE mcp_asked + 1
    /\ \E n \in 1..MaxTools :
          langchain_tools' = IF mcp = "tools" THEN n ELSE 0
    /\ qpc' = IF langchain_tools' > 0 THEN "agent" ELSE "plain"
    /\ UNCHANGED <<upload, mcp, made, temp_dirs, temp_dir, zip_info, stages,
                   status_code, tools_used>>
    /\ UNCHANGED <<boxVars, nameVars>>

StageAgent_NoFallback ==
    /\ qpc = "agent"
    /\ \E ok \in BOOLEAN :
          /\ stages' = Append(stages, <<"agent", ok>>)
          /\ IF ok
             THEN /\ tools_used' = langchain_tools /\ qpc' = "returned"
                  /\ UNCHANGED status_code
             ELSE /\ qpc' = "responded" /\ status_code' = 500
                  /\ UNCHANGED tools_used
    /\ UNCHANGED <<upload, mcp, made, temp_dirs, temp_dir, zip_info,
                   langchain_tools, mcp_asked>>
    /\ UNCHANGED <<boxVars, nameVars>>

\* _process_with_agent: the agent runs to its end, or raises and the
\* fallback takes over
StageAgent ==
    /\ qpc = "agent"
    /\ \E ok \in BOOLEAN :
          /\ stages' = Append(stages, <<"agent", ok>>)
          /\ IF ok
             THEN tools_used' = langchain_tools /\ qpc' = "returned"
             ELSE qpc' = "bound" /\ UNCHANGED tools_used
    /\ UNCHANGED <<upload, mcp, made, temp_dirs, temp_dir, zip_info,
                   langchain_tools, mcp_asked, status_code>>
    /\ UNCHANGED <<boxVars, nameVars>>

\* _process_with_fallback: llm.bind_tools(...).ainvoke, or its exception
StageBound ==
    /\ qpc = "bound"
    /\ \E ok \in BOOLEAN :
          /\ stages' = Append(stages, <<"bound", ok>>)
          /\ IF ok
             THEN tools_used' = langchain_tools /\ qpc' = "returned"
             ELSE qpc' = "unbound" /\ UNCHANGED tools_used
    /\ UNCHANGED <<upload, mcp, made, temp_dirs, temp_dir, zip_info,
                   langchain_tools, mcp_asked, status_code>>
    /\ UNCHANGED <<boxVars, nameVars>>

\* llm.ainvoke without tools, in _process_without_tools or as the last
\* resort of _process_with_fallback; its exception leaves process_report
\* as HTTPException(500)
StagePlain ==
    /\ qpc \in {"plain", "unbound"}
    /\ \E ok \in BOOLEAN :
          /\ stages' = Append(stages, <<"plain", ok>>)
          /\ IF ok
             THEN /\ tools_used' = IF qpc = "plain" THEN 0 ELSE langchain_tools
                  /\ qpc' = "returned"
                  /\ UNCHANGED status_code
             ELSE /\ qpc' = "responded" /\ status_code' = 500
                  /\ UNCHANGED tools_used
    /\ UNCHANGED <<upload, mcp, made, temp_dirs, temp_dir, zip_info,
                   langchain_tools, mcp_asked>>
    /\ UNCHANGED <<boxVars, nameVars>>

\* report has the result: temp_dir is read from it, the response is built,
\* the finally block removes the directory
ReportRespond ==
    /\ qpc = "returned"
    /\ temp_dir' = zip_info.temp_directory
    /\ status_code' = HttpOk
    /\ temp_dirs' = IF temp_dir' # NoDir THEN temp_dirs \ {temp_dir'} ELSE temp_dirs
    /\ qpc' = "responded"
    /\ UNCHANGED <<upload, mcp, made, zip_info, langchain_tools, mcp_asked,
                   stages, tools_used>>
    /\ UNCHANGED <<boxVars, nameVars>>

\* ---------------------------------------------------------------- environment
\* a process outside the program (retention, the user) removes a closed chunk
\* between selection and packaging, the case os.path.exists is there for
ExternalPrune ==
    /\ spc = "pack" /\ pruned < MaxPrunes
    /\ \E stem \in DOMAIN files \ opened :
          files' = [s \in DOMAIN files \ {stem} |-> files[s]]
    /\ pruned' = pruned + 1
    /\ UNCHANGED <<now, stop_event, mpc, apc, triggers>>
    /\ UNCHANGED recVars
    /\ UNCHANGED selVars
    /\ UNCHANGED extVars

\* the wall clock advances; cap.read() blocks for as long as the camera
\* takes, so frames and ticks interleave freely
Tick ==
    /\ now < MaxTime
    /\ now' = now + 1
    /\ UNCHANGED <<stop_event, mpc, files, apc, triggers, pruned>>
    /\ UNCHANGED recVars
    /\ UNCHANGED selVars
    /\ UNCHANGED extVars

\* -------------------------------------------------------------- specifications
EmptyDir == [s \in {} |-> 0]

\* no request has reached the server
NoUpload == [filename |-> "none", valid |-> FALSE, entries |-> <<>>]
NoInfo == [mp4_files |-> <<>>, temp_directory |-> NoDir]

SrvIdle ==
    /\ qpc = "idle" /\ upload = NoUpload /\ mcp = "off"
    /\ made = 0 /\ temp_dirs = {} /\ temp_dir = NoDir /\ zip_info = NoInfo
    /\ langchain_tools = 0 /\ mcp_asked = 0 /\ stages = <<>>
    /\ status_code = 0 /\ tools_used = NoResult

\* no name has been formatted
NameIdle ==
    /\ t1 = <<>> /\ t2 = <<>> /\ padded = TRUE
    /\ name1 = <<>> /\ name2 = <<>> /\ parsed = <<>>

Init ==
    /\ now = 0 /\ stop_event = FALSE /\ mpc = "running"
    /\ rpc = "init" /\ cap = "unopened" /\ rexit = "none"
    /\ frame_count = 0 /\ out = NoFile /\ opened = {}
    /\ files = EmptyDir
    /\ apc = "init" /\ spc = "idle" /\ fired_at = 0
    /\ sel = <<>> /\ idx = 1 /\ zipped = <<>> /\ ret = None /\ wret = None
    /\ observed = {}
    /\ selections = 0 /\ uploads = 0 /\ posts = 0 /\ posted = <<>>
    /\ mp4_files = <<>>
    /\ triggers = 0 /\ pruned = 0
    /\ SrvIdle /\ NameIdle

Next ==
    \/ RecStart \/ RecFrame \/ RecReadFail \/ RecStopSeen \/ RecException
    \/ RecFinally \/ MainExit \/ AudioStart \/ AudioStop
    \/ Trigger \/ SelList \/ PackNext \/ PackRead \/ PackPost \/ PackError
    \/ ExternalPrune \/ Tick

Spec == Init /\ [][Next]_vars

\* Selector, packager and the unpacking of the posted archive on a directory
\* at rest: any directory of at most SelMaxFiles closed chunks (and a file
\* with an unparsable name), any wake-up time, the wait over.
SelStems == {-1} \cup (0..SelMaxSec)

InitSel ==
    /\ fired_at \in 0..(SelMaxSec * TicksPerSec)
    /\ now = fired_at + WaitTicks
    /\ \E S \in SUBSET SelStems :
          /\ Cardinality(S) <= SelMaxFiles
          /\ files = [s \in S |-> 1 + (s % FramesPerChunk)]
    /\ stop_event = TRUE /\ mpc = "running"
    /\ rpc = "done" /\ cap = "released" /\ rexit = "stop"
    /\ frame_count = 0 /\ out = NoFile /\ opened = {}
    /\ apc = "stopped" /\ spc = "wait"
    /\ sel = <<>> /\ idx = 1 /\ zipped = <<>> /\ ret = None /\ wret = None
    /\ observed = {}
    /\ selections = 0 /\ uploads = 0 /\ posts = 0 /\ posted = <<>>
    /\ mp4_files = <<>>
    /\ triggers = 1 /\ pruned = 0
    /\ SrvIdle /\ NameIdle

NextSel ==
    \/ SelList \/ PackNext \/ PackRead \/ PackPost \/ PackError \/ ExtractZip

SpecSel == InitSel /\ [][NextSel]_vars

\* The same on a directory that also holds names that are not zero-padded.
AliasStems == (0..AliasMaxSec) \cup {Short(s) : s \in 0..AliasMaxSec}

InitAlias ==
    /\ fired_at \in 0..(AliasMaxSec * TicksPerSec + 1)
    /\ now = fired_at + WaitTicks
    /\ \E S \in SUBSET AliasStems : files = [s \in S |-> 1 + (s % FramesPerChunk)]
    /\ stop_event = TRUE /\ mpc = "running"
    /\ rpc = "done" /\ cap = "released" /\ rexit = "stop"
    /\ frame_count = 0 /\ out = NoFile /\ opened = {}
    /\ apc = "stopped" /\ spc = "wait"
    /\ sel = <<>> /\ idx = 1 /\ zipped = <<>> /\ ret = None /\ wret = None
    /\ observed = {}
    /\ selections = 0 /\ uploads = 0 /\ posts = 0 /\ posted = <<>>
    /\ mp4_files = <<>>
    /\ triggers = 1 /\ pruned = 0
    /\ SrvIdle /\ NameIdle

SpecAlias == InitAlias /\ [][NextSel]_vars

\* Naming: two times around the places where a field gains a digit or wraps.
Times ==
    {<<y, mo, d, h, mi, se>> :
        y \in {999, 2025, 2026}, mo \in {9, 10}, d \in {9, 10},
        h \in {9, 23}, mi \in {0, 59}, se \in {9, 10}}

InitName ==
    /\ now = 0 /\ stop_event = FALSE /\ mpc = "running"
    /\ rpc = "init" /\ cap = "unopened" /\ rexit = "none"
    /\ frame_count = 0 /\ out = NoFile /\ opened = {}
    /\ files = EmptyDir
    /\ apc = "init" /\ spc = "idle" /\ fired_at = 0
    /\ sel = <<>> /\ idx = 1 /\ zipped = <<>> /\ ret = None /\ wret = None
    /\ observed = {}
    /\ selections = 0 /\ uploads = 0 /\ posts = 0 /\ posted = <<>>
    /\ mp4_files = <<>>
    /\ triggers = 0 /\ pruned = 0
    /\ SrvIdle
    /\ t1 \in Times /\ t2 \in Times /\ padded \in BOOLEAN
    /\ name1 = <<>> /\ name2 = <<>> /\ parsed = <<>>

NextName == NameFormat \/ NameParse

SpecName == InitName /\ [][NextName]_vars

\* The grace wait: a trigger has just fired while the recorder has a chunk
\* open, the first of the directory; the recorder and the clock run on until
\* the selector lists.
InitWait ==
    /\ fired_at \in 0..(MaxTime - WaitTicks)
    /\ now = fired_at
    /\ \E t0 \in 0..fired_at, k \in 1..FramesPerChunk :
          /\ frame_count = k
          /\ out = Format(t0)
          /\ opened = {Format(t0)}
          /\ files = (Format(t0) :> k)
    /\ stop_event = FALSE /\ mpc = "running"
    /\ rpc = "loop" /\ cap = "open" /\ rexit = "none"
    /\ apc = "listening" /\ spc = "wait"
    /\ sel = <<>> /\ idx = 1 /\ zipped = <<>> /\ ret = None /\ wret = None
    /\ observed = {}
    /\ selections = 0 /\ uploads = 0 /\ posts = 0 /\ posted = <<>>
    /\ mp4_files = <<>>
    /\ triggers = 1 /\ pruned = 0
    /\ SrvIdle /\ NameIdle

NextWait == RecFrame \/ Tick \/ SelList

SpecWait == InitWait /\ [][NextWait]_vars

\* One /report request on the server.
NextReport ==
    \/ ReportReceive \/ ReportValidate \/ ReportExtract \/ ReportLoadTools
    \/ StageAgent \/ StageBound \/ StagePlain \/ ReportRespond

SpecReport == Init /\ [][NextReport]_vars

\* The pipeline with the scheduling the threads get: the clock advances, a
\* sleeping on_wakeup is resumed, main runs its finally block.
SpecFair ==
    Spec /\ WF_vars(Tick) /\ WF_vars(SelList) /\ WF_vars(MainExit)

\* ------------------------------------------------------------------ claims
\* The directory as the selector's contract sees it.
PreStems == {s \in DOMAIN files : s >= 0 /\ s * TicksPerSec < fired_at}

PostStems == {s \in DOMAIN files : s >= 0 /\ s * TicksPerSec >= fired_at}

Newest(S) == CHOOSE s \in S : \A t \in S : t <= s

Anchor == CHOOSE s \in PostStems : \A t \in PostStems : s <= t

\* the n most recent pre-chunks
RecentPre(n) == {s \in PreStems : Cardinality({t \in PreStems : t > s}) < n}

Gap == fired_at - Newest(PreStems) * TicksPerSec

Selected == spc # "wait"

\* the part of the returned list behind the anchor post-chunk
PreTail == IF PostStems # {} THEN SubSeq(sel, 2, Len(sel)) ELSE sel

\* C1: with a post-chunk, at least 3 pre-chunks and a gap of 5 seconds or
\* more (5 included), the result is exactly 4 paths: the anchor post-chunk
\* and the 3 most recent pre-chunks.
C1_FourChunkPolicy ==
    (/\ Selected /\ PostStems # {} /\ Cardinality(PreStems) >= 3
     /\ Gap >= 5 * TicksPerSec)
    => /\ Len(sel) = 4
       /\ Range(sel) = {Anchor} \cup RecentPre(3)
       /\ Cardinality(Range(sel)) = 4

C1_Witness ==
    /\ Selected /\ PostStems # {} /\ Cardinality(PreStems) >= 4
    /\ Gap = 5 * TicksPerSec
    /\ Len(sel) = 4

\* C2 as claimed: with a gap under 5 seconds the result holds at most the 2
\* most recent pre-chunks and at most 3 paths, with or without a post-chunk.
C2_AtMostThreeAlways ==
    (Selected /\ PreStems # {} /\ Gap < 5 * TicksPerSec)
    => /\ Len(sel) <= 3
       /\ Range(sel) \cap PreStems \subseteq RecentPre(2)

\* C2 as amended: with a gap under 5 seconds and a post-chunk, the result is
\* the anchor and the (at most 2) most recent pre-chunks, at most 3 paths;
\* without a post-chunk it is the (at most 4) most recent pre-chunks.
C2_ThreeChunkPolicy ==
    (Selected /\ PreStems # {} /\ Gap < 5 * TicksPerSec)
    => IF PostStems # {}
       THEN /\ Len(sel) <= 3
            /\ Len(sel) = Cardinality(Range(sel))
            /\ Range(sel) = {Anchor} \cup RecentPre(2)
       ELSE /\ Len(sel) <= 4
            /\ Len(sel) = Cardinality(Range(sel))
            /\ Range(sel) = RecentPre(4)

C2_Witness ==
    /\ Selected /\ PostStems # {} /\ Cardinality(PreStems) >= 4
    /\ Gap = 5 * TicksPerSec - 1
    /\ Len(sel) = 3

\* C3 as claimed: the anchor post-chunk comes first and the selected
\* pre-chunks follow in ascending order of start time.
C3_PreAscending ==
    (Selected /\ PostStems # {})
    => /\ sel[1] = Anchor
       /\ \A i, j \in 2..Len(sel) : i < j => sel[i] < sel[j]

\* C3 as amended: the anchor post-chunk comes first and the selected
\* pre-chunks follow in descending order of start time, newest first.
C3_PreDescending ==
    Selected
    => /\ PostStems # {} => sel[1] = Anchor
       /\ \A i, j \in 1..Len(PreTail) : i < j => PreTail[i] > PreTail[j]
       /\ PreStems # {} => PreTail # <<>> /\ PreTail[1] = Newest(PreStems)

C3_Witness ==
    /\ Selected /\ PostStems # {}
    /\ Len(sel) = 4 /\ sel[1] = Anchor
    /\ sel[2] > sel[3] /\ sel[3] > sel[4]
    /\ Gap > 5 * TicksPerSec

\* C5: with chunks both before and at/after fired_at the result is not empty,
\* holds no pre-chunk older than the 4th most recent one, and holds exactly
\* one post-chunk, the earliest.
C5_WithinWindow ==
    (Selected /\ PreStems # {} /\ PostStems # {})
    => /\ sel # <<>>
       /\ Range(sel) \subseteq PreStems \cup PostStems
       /\ Range(sel) \cap PreStems \subseteq RecentPre(4)
       /\ Range(sel) \cap PostStems = {Anchor}

C5_Witness ==
    /\ Selected /\ Cardinality(PreStems) >= 5 /\ Cardinality(PostStems) >= 2
    /\ sel # <<>> /\ Anchor \in Range(sel)

\* C4 as claimed: a chunk is never read into the archive while the recorder
\* has it open for writing.
C4_ReadsOnlyClosed == spc = "reading" => sel[idx] \notin opened

\* C6 as claimed: upload_video_files does not return True when a selected
\* file was missing at packaging, so True means every path is in the archive.
C6_MissingFileFails ==
    (spc = "idle" /\ ret = "True")
    => Range(sel) \subseteq {zipped[i][1] : i \in 1..Len(zipped)}

\* C7 as claimed: what on_wakeup returns tells apart an uploaded bundle, no
\* evidence and a failure: equal return values mean equal outcomes.
C7_OutcomesDistinct ==
    \A p, q \in observed : p[1] = q[1] => p[2] = q[2]

\* C8 as claimed: a step of the recorder only adds files, a rollover creates
\* a file name that is not in the directory yet, and the content of a closed
\* chunk is left as it is.
C8_ChunksOnlyAdded ==
    [][frame_count' = frame_count + 1
       => /\ DOMAIN files \subseteq DOMAIN files'
          /\ frame_count % FramesPerChunk = 0 => out' \notin DOMAIN files
          /\ \A s \in DOMAIN files \ opened : files'[s] = files[s]]_vars

\* C9: at most one chunk is open for writing, and it is the recorder's
\* current one; every other chunk in the directory is closed.
C9_AtMostOneOpen ==
    /\ Cardinality(opened) <= 1
    /\ opened \subseteq {out}
    /\ opened \subseteq DOMAIN files

C9_Witness ==
    /\ frame_count > FramesPerChunk
    /\ opened = {out}
    /\ Cardinality(DOMAIN files) >= 2

\* C10: when video_recorder has ended on the stop signal, a user quit, a
\* failed read or an exception, no chunk is open and the capture device is
\* released.
C10_ClosedAtExit ==
    (rpc = "done" /\ rexit # "nocamera") => opened = {} /\ cap = "released"

C10_Witness ==
    /\ rpc = "done" /\ rexit = "stop" /\ stop_event
    /\ frame_count > 0 /\ out # NoFile /\ opened = {}

\* C11: a frame read that fails writes nothing and ends the loop without an
\* exception; the finally block then closes the chunk that was open. Neither
\* step changes a chunk file (the partial chunk stays as it is on disk) and
\* the process keeps running.
C11_ReadFailStopsCleanly ==
    [][ /\ (rexit' = "readfail" /\ rpc = "loop" /\ rpc' # "loop") =>
              /\ files' = files /\ frame_count' = frame_count
              /\ rpc' = "finally" /\ mpc' = "running"
        /\ (rexit = "readfail" /\ rpc = "finally" /\ rpc' # "finally") =>
              /\ files' = files /\ opened' = {}
              /\ rpc' = "done" /\ cap' = "released" /\ mpc' = "running"
      ]_vars

\* a read failed in the middle of a chunk, after an earlier chunk was closed
C11_Witness ==
    /\ rpc = "done" /\ rexit = "readfail" /\ opened = {}
    /\ out \in DOMAIN files /\ files[out] < FramesPerChunk
    /\ Cardinality(DOMAIN files) >= 2

\* the wait of a trigger ends within the time the model covers
WaitFits == fired_at + WaitTicks <= MaxTime

\* C12: a camera that does not open leaves no chunk file and no frame, sets
\* the stop signal and ends the recorder; from there main always exits, which
\* ends the audio listener loop with it.
C12_NoCameraStops ==
    /\ [](rexit = "nocamera" =>
             /\ stop_event /\ rpc = "done" /\ cap = "failed"
             /\ frame_count = 0 /\ out = NoFile
             /\ DOMAIN files = {} /\ opened = {})
    /\ ((rexit = "nocamera") ~> (mpc = "exited"))

\* the listener loop saw the stop signal of the failed camera, and main exited
C12_Witness ==
    rexit = "nocamera" /\ apc = "stopped" /\ mpc = "exited"

\* C13: the selector never waits for a post-chunk: once the sleep is over it
\* can list and return, and every call whose sleep ends returns (or the
\* process has exited).
C13_SelectorReturns ==
    /\ []((spc = "wait" /\ mpc = "running" /\ now >= fired_at + WaitTicks)
              => ENABLED SelList)
    /\ ((spc = "wait" /\ WaitFits) ~> (spc # "wait" \/ mpc = "exited"))

\* a call returned although no post-chunk was there and the recorder had ended
C13_Witness ==
    /\ selections > 0 /\ spc = "idle" /\ rpc = "done"
    /\ PreStems # {} /\ PostStems = {} /\ sel # <<>>

\* C14: the step in which the selector lists and selects leaves every chunk
\* file and every writer as it was, and its result is a function of the
\* directory and the trigger time alone.
C14_SelectorReadsOnly ==
    [][(spc = "wait" /\ spc' # "wait") =>
          /\ files' = files /\ opened' = opened /\ frame_count' = frame_count
          /\ \E l \in Listings(DOMAIN files) :
                sel' = GetValidVideoFiles(l, fired_at)
      ]_vars

\* a selection was made while the recorder had a chunk open and others closed
C14_Witness ==
    /\ spc = "pack" /\ opened # {}
    /\ DOMAIN files \ (Range(sel) \cup opened) # {}

\* C15: with no parsable chunk file the selector returns the empty list, and
\* on_wakeup returns with nothing packed and nothing posted.
C15_EmptyIsNoEvidence ==
    (Selected /\ PreStems = {} /\ PostStems = {}) =>
        /\ sel = <<>> /\ spc = "idle"
        /\ wret = None /\ <<None, "no_evidence">> \in observed
        /\ uploads = 0 /\ posts = 0 /\ zipped = <<>> /\ ret = None

\* a directory holding only a name that does not parse
C15_Witness ==
    Selected /\ DOMAIN files = {-1} /\ sel = <<>>

\* C16: a post-chunk with fewer pre-chunks than the policy asks for gives the
\* anchor and every pre-chunk; no post-chunk gives pre-chunks only, and some
\* exactly when one exists; no file is listed twice.
C16_GracefulDegradation ==
    Selected =>
        /\ (PostStems # {} /\ Cardinality(PreStems) < 3) =>
              /\ Range(sel) = {Anchor} \cup PreStems
              /\ Len(sel) = Cardinality(PreStems) + 1
        /\ PostStems = {} =>
              /\ Range(sel) \subseteq PreStems
              /\ (sel # <<>>) <=> (PreStems # {})
        /\ Len(sel) = Cardinality(Range(sel))
        /\ Range(sel) \subseteq DOMAIN files

\* a post-chunk with two pre-chunks only
C16_Witness ==
    /\ Selected /\ PostStems # {} /\ Cardinality(PreStems) = 2
    /\ Len(sel) = 3

\* C17: the list the selector returns is the same for every order in which
\* the directory can be listed. Violated when two names parse to the same
\* second: the sorts are stable and keep the listing order among them.
C17_ListingOrderIrrelevant ==
    Selected =>
        \A l \in Listings(DOMAIN files) : GetValidVideoFiles(l, fired_at) = sel

\* C18: a call that ends while the archive is still being built returns False
\* and hands nothing to the sink; True is returned only for an archive that
\* was completed and posted.
C18_ErrorNeverUploads ==
    /\ [][(spc \in {"pack", "reading"} /\ spc' = "idle" /\ idx' <= Len(sel')) =>
             /\ ret' = "False"
             /\ posts' = posts /\ posted' = posted /\ zipped' = zipped
         ]_vars
    /\ [](ret = "True" => (idx > Len(sel) /\ posts > 0 /\ posted = zipped))

\* an error after the first chunk was written into the archive
C18_Witness ==
    /\ spc = "idle" /\ ret = "False" /\ idx <= Len(sel)
    /\ zipped # <<>> /\ posts = 0

\* C19: what extract_zip_contents gets out of the archive upload_video_files
\* posted for N existing chunk files is N entries with the names and the
\* contents of those files, in the order they were given.
C19_RoundTrip ==
    (posts > 0 /\ mp4_files # <<>>) =>
        /\ Len(mp4_files) = Len(sel)
        /\ \A i \in 1..Len(sel) : mp4_files[i] = <<sel[i], files[sel[i]]>>

\* four chunks of differing content went through the archive
C19_Witness ==
    /\ posts > 0 /\ Len(mp4_files) = 4
    /\ \E i, j \in 1..4 : mp4_files[i][2] # mp4_files[j][2]

\* C20: every trigger gets one selection, made with its own trigger time; a
\* selection ends in no-evidence or in one call of the packager, which posts
\* at most once; and each trigger whose wait ends gets its selection unless
\* the process exits first.
C20_OneSelectionPerTrigger ==
    /\ [](/\ selections = (IF spc = "wait" THEN triggers - 1 ELSE triggers)
          /\ uploads <= selections /\ posts <= uploads)
    /\ [][/\ (triggers' # triggers) =>
                (triggers' = triggers + 1 /\ fired_at' = now /\ spc' = "wait")
          /\ (triggers' = triggers) => fired_at' = fired_at
          /\ (selections' # selections) =>
                /\ selections' = selections + 1 /\ spc = "wait"
                /\ \/ uploads' = uploads + 1 /\ spc' = "pack"
                   \/ /\ uploads' = uploads /\ spc' = "idle"
                      /\ <<None, "no_evidence">> \in observed'
         ]_vars
    /\ ((spc = "wait" /\ WaitFits)
            ~> (selections = triggers \/ mpc = "exited"))

\* two triggers, one ended as no-evidence, the other in one posted archive
C20_Witness ==
    /\ triggers = 2 /\ selections = 2 /\ spc = "idle"
    /\ uploads = 1 /\ posts = 1
    /\ <<None, "no_evidence">> \in observed

\* a time whose year has four digits
FourDigitYear(t) == t[1] >= 1000

C23_UnparsableIgnored ==
    Selected =>
        \A l \in Listings({s \in DOMAIN files : s >= 0}) :
            GetValidVideoFiles(l, fired_at) = sel

\* a selection of several chunks from a directory that holds such a file
C23_Witness ==
    Selected /\ -1 \in DOMAIN files /\ Len(sel) >= 3

\* C29: with a pre-chunk in the directory the most recent one is returned, in
\* every branch, and no pre-chunk is returned while a more recent one is not.
C29_NewestPreSelected ==
    (Selected /\ PreStems # {}) =>
        /\ Newest(PreStems) \in Range(sel)
        /\ \A s \in Range(sel) \cap PreStems :
              \A t \in PreStems : t > s => t \in Range(sel)

\* more pre-chunks than any branch returns
C29_Witness ==
    /\ Selected /\ Cardinality(PreStems) >= 5
    /\ Cardinality(Range(sel) \cap PreStems) \in {2, 3, 4}

\* C28: a chunk closed by a rollover holds exactly FramesPerChunk frames and
\* only the last chunk of a run may hold fewer; a frame that was read is
\* written once, to the chunk open at that moment, and to no other file.
C28_FramesPerChunk ==
    /\ [][frame_count' = frame_count + 1 =>
             LET boundary == frame_count % FramesPerChunk = 0
             IN  /\ out' \in opened' /\ out' \in DOMAIN files'
                 /\ (boundary /\ out # NoFile) => files[out] = FramesPerChunk
                 /\ files'[out'] = (IF boundary THEN 1 ELSE files[out] + 1)
                 /\ \A s \in DOMAIN files \ {out'} :
                       s \in DOMAIN files' /\ files'[s] = files[s]
         ]_vars
    /\ [](\A s \in DOMAIN files \ opened :
             files[s] = FramesPerChunk \/ (s = out /\ rpc = "done"))

\* a run of two full chunks and a last one that is shorter
C28_Witness ==
    /\ rpc = "done" /\ Cardinality(DOMAIN files) >= 3
    /\ out \in DOMAIN files /\ files[out] < FramesPerChunk
    /\ \A s \in DOMAIN files \ {out} : files[s] = FramesPerChunk

\* C27: when the recorder kept recording through the wait and rolled over to
\* a new chunk file in it, the list returned starts with a post-chunk, a chunk
\* whose start time is not before the trigger.
C27_AnchorAfterWait ==
    [][(/\ spc = "wait" /\ spc' # "wait"
        /\ rpc = "loop" /\ frame_count > FramesPerChunk
        /\ Cardinality(DOMAIN files) >= 2)
           => (sel' # <<>> /\ Parse(sel'[1]) >= fired_at)]_vars

\* C21: when the request has been answered no temporary directory made for
\* it is left, whatever the answer.
C21_TempDirsRemoved ==
    qpc = "responded" => temp_dirs = {}

\* C22: every .mp4 entry whose probe fails is still listed, with no
\* duration: extraction of an archive without corrupt data never fails.
C22_ProbeFailureListed ==
    (/\ qpc \notin {"idle", "received", "validated"}
     /\ upload.filename = "zip" /\ upload.valid
     /\ Mp4Names(upload.entries) # <<>>
     /\ \A i \in 1..Len(upload.entries) : upload.entries[i] # "corrupt")
        => /\ Len(zip_info.mp4_files) = Len(Mp4Names(upload.entries))
           /\ \A i \in 1..Len(zip_info.mp4_files) :
                 zip_info.mp4_files[i] =
                    <<Mp4Names(upload.entries)[i],
                      IF Mp4Names(upload.entries)[i] = "ok"
                      THEN "seconds" ELSE "None">>

\* the upload is one the claim has rejected
Rejected ==
    \/ upload.filename # "zip"
    \/ ~upload.valid
    \/ \A i \in 1..Len(upload.entries) : upload.entries[i] = "other"

\* C26: an upload that is not named .zip, is not an archive or holds no .mp4
\* entry is answered with 400, and no temporary directory was made, no tool
\* list asked for and no LLM stage run for it.
C26_RejectedEarly ==
    (qpc # "idle" /\ Rejected) =>
        /\ qpc \in {"received", "responded"}
        /\ qpc = "responded" => status_code = 400
        /\ made = 0 /\ temp_dirs = {} /\ zip_info = NoInfo
        /\ mcp_asked = 0 /\ stages = <<>> /\ langchain_tools = 0

\* an archive with entries, none of them .mp4, was turned away
C26_Witness ==
    /\ qpc = "responded" /\ status_code = 400
    /\ upload.filename = "zip" /\ upload.valid /\ upload.entries = <<"other">>

LastStage == stages[Len(stages)]

\* the stages run in the order agent, bound, plain, each after a failure of
\* the one before, starting with the agent exactly when tools were loaded
StagesInOrder ==
    /\ \A i \in 1..(Len(stages) - 1) :
          /\ ~stages[i][2]
          /\ <<stages[i][1], stages[i + 1][1]>> \in
                {<<"agent", "bound">>, <<"bound", "plain">>}
    /\ stages # <<>> =>
          stages[1][1] = (IF langchain_tools > 0 THEN "agent" ELSE "plain")

\* a stage that succeeded is the last one and gives status success
SuccessEndsIt ==
    /\ (stages # <<>> /\ LastStage[2]) =>
          /\ qpc \in {"returned", "responded"}
          /\ qpc = "responded" => status_code = HttpOk
    /\ status_code = HttpOk => (stages # <<>> /\ LastStage[2])

\* without a connected client, or with tools that failed to load, the plain
\* LLM is the first stage and the result reports no tools
PlainWithoutTools ==
    (mcp \in {"off", "fails"} /\ stages # <<>>) =>
        /\ stages[1][1] = "plain"
        /\ tools_used \in {NoResult, 0}
        /\ status_code = HttpOk => tools_used = 0

====
